---- MODULE Spec2Model ----
(***************************************************************************)
(* Settlers of Mars: the session controller of src/App.tsx, the scene      *)
(* pipeline of src/services/geminiService.ts as the controller sees it,    *)
(* and the habitat graph the UI reads from the current scene.              *)
(*                                                                         *)
(* The controller is the React component App.  Its state is the six        *)
(* useState cells; its entry points are the three callbacks                *)
(* handleStartGame (start), handleChoice (choose) and resetGame (reset).   *)
(* A handler runs to completion (JavaScript is single threaded), so each   *)
(* handler is one action.  handleApiCall suspends at its await: the part   *)
(* before the await belongs to the calling handler's action, the part      *)
(* after it (ApiSuccess / ApiFailure) runs when the promise of             *)
(* fetchNextScene settles.  fetchNextScene itself suspends twice, at the   *)
(* narrative request and at the image request; other handlers may run at   *)
(* both points.  The record of an in-flight call is its closure: the       *)
(* values captured when the call was issued and, once the narrative reply  *)
(* is parsed, the payload.                                                 *)
(*                                                                         *)
(* A JavaScript value that may be null is an option: <<>> is null and      *)
(* <<v>> is the value v.                                                   *)
(*                                                                         *)
(* The habitat viewer of src/components/GameUI.tsx computes the layout of  *)
(* the habitat graph in a useMemo callback.  The callback is a function of *)
(* the module list and of Math.random; it is modelled statement by         *)
(* statement on its own variables and checked under SpecLayout, for every  *)
(* module list up to MaxModules modules.  Under Spec the viewer is at      *)
(* rest; under SpecLayout the controller is.                               *)
(***************************************************************************)
EXTENDS Integers, Sequences, FiniteSets, TLC

VARIABLES gameState, currentScene, storyLog, inventory, error, lastAddedItem,
          pending, issued

vars == <<gameState, currentScene, storyLog, inventory, error, lastAddedItem,
          pending, issued>>

\* the layout callback: its argument, its locals, the statement it is at,
\* and the positions the call before it returned
VARIABLES modules, positions, connectionAngles, placedModules, queue, parent,
          children, index, startAngle, pc, previous

layoutVars == <<modules, positions, connectionAngles, placedModules, queue, parent,
                children, index, startAngle, pc, previous>>

(***************************************************************************)
(* Bounds of the model.                                                    *)
(***************************************************************************)
\* pipeline calls issued during one run (the promises ever created)
MaxCalls == 3

\* modules of a list handed to the layout
MaxModules == 3

(***************************************************************************)
(* Values.                                                                 *)
(***************************************************************************)
None == <<>>
Some(v) == <<v>>
Get(o) == o[1]

GameStates == {"START", "LOADING", "PLAYING", "GAME_OVER", "ERROR"}

\* the action handleStartGame passes to the pipeline
BeginAction == "Start the game"

\* the separator handleChoice joins the logged stories with
Separator == "\n---\n"

\* actions a caller passes to choose()
Actions == {"Build Biodome"}

\* story texts the narrative capability returns
Stories == {"s1", "s2"}

\* item names are sequences of characters, so that trim() is computed
ItemTexts == {<<" ">>, <<"A">>, <<"B">>}

\* newItem of a reply: null or a string
NewItems == {None} \cup {Some(t) : t \in ItemTexts}

Shuttle == [id |-> "shuttle-1", type |-> "shuttle", connectedToId |-> ""]
Biodome == [id |-> "biodome-1", type |-> "biodome", connectedToId |-> "shuttle-1"]

\* habitatModules of a reply: the reply is untrusted, so besides the
\* well-formed growing graphs there is a reply that drops the shuttle and
\* keeps a module connected to it
HabitatReplies ==
    { <<Shuttle>>,
      <<Shuttle, Biodome>>,
      <<Biodome>> }

\* choices of a reply: the list of actions, or absent (a reply that parses
\* but lacks a required field)
ChoicesReplies == {Some(<<"Build Biodome">>), None}

\* the value generateStory returns: whatever JSON.parse gives, cast to
\* ScenePayload (the fields the controller and the views read; imagePrompt
\* and habitatStatus are carried along unread)
\* The replies considered are the first reply of a game and the replies that
\* differ from it in one field.
BasePayload ==
    [story |-> "s1", choices |-> Some(<<"Build Biodome">>), newItem |-> None,
     gameOver |-> FALSE, habitatModules |-> <<Shuttle>>]

Payloads ==
    {[BasePayload EXCEPT !.story = s] : s \in Stories}
       \cup {[BasePayload EXCEPT !.newItem = n] : n \in NewItems}
       \cup {[BasePayload EXCEPT !.gameOver = g] : g \in BOOLEAN}
       \cup {[BasePayload EXCEPT !.habitatModules = h] : h \in HabitatReplies}
       \cup {[BasePayload EXCEPT !.choices = ch] : ch \in ChoicesReplies}

\* the data URL generateImage returns
ImageUrl == "data:image/jpeg;base64,AAAA"

\* the Scene fetchNextScene resolves with: { ...scenePayload, imageUrl }
MakeScene(scenePayload, imageUrl) ==
    [story |-> scenePayload.story, choices |-> scenePayload.choices,
     newItem |-> scenePayload.newItem,
     gameOver |-> scenePayload.gameOver,
     habitatModules |-> scenePayload.habitatModules, imageUrl |-> imageUrl]

Scenes == {MakeScene(p, ImageUrl) : p \in Payloads}

\* what the pipeline rejects with: the two errors it throws itself, an error
\* of the external capability, and a thrown value that is not an Error
InvalidFormat == [isError |-> TRUE, message |-> "Received an invalid story format from the AI."]
NoImage == [isError |-> TRUE, message |-> "Failed to generate an image."]
ServiceError == [isError |-> TRUE, message |-> "service unavailable"]
NotAnError == [isError |-> FALSE, message |-> ""]
StoryErrors == {InvalidFormat, ServiceError, NotAnError}
ImageErrors == {NoImage, ServiceError, NotAnError}
Thrown == StoryErrors \cup ImageErrors

(***************************************************************************)
(* Pure helpers.                                                           *)
(***************************************************************************)
isSpace(c) == c = " "

RECURSIVE trimStart(_)
trimStart(s) == IF s # <<>> /\ isSpace(Head(s)) THEN trimStart(Tail(s)) ELSE s

RECURSIVE trimEnd(_)
trimEnd(s) ==
    IF s # <<>> /\ isSpace(s[Len(s)]) THEN trimEnd(SubSeq(s, 1, Len(s) - 1)) ELSE s

\* String.prototype.trim
trim(s) == trimEnd(trimStart(s))

\* Array.prototype.includes
includes(seq, v) == \E i \in 1..Len(seq) : seq[i] = v

\* Array.prototype.join on the stories of the log
RECURSIVE join(_, _)
join(texts, sep) ==
    IF texts = <<>> THEN ""
    ELSE IF Len(texts) = 1 THEN texts[1]
    ELSE texts[1] \o sep \o join(Tail(texts), sep)

\* the habitat graph of the session: what GameUI hands to the habitat viewer
habitatGraph == IF currentScene = None THEN None ELSE Get(currentScene).habitatModules

(***************************************************************************)
(* The controller after construction: the useState initialisers, no call   *)
(* in flight.                                                              *)
(***************************************************************************)
Mounted ==
    /\ gameState = "START"
    /\ currentScene = None
    /\ storyLog = <<>>
    /\ inventory = <<>>
    /\ error = None
    /\ lastAddedItem = None
    /\ pending = {}
    /\ issued = 0

\* resetGame with setGameState(GameState.START) dropped
resetGameKeepsState ==
    /\ gameState' = gameState
    /\ currentScene' = None
    /\ storyLog' = <<>>
    /\ inventory' = <<>>
    /\ error' = None
    /\ lastAddedItem' = None
    /\ UNCHANGED <<pending, issued>>

\* resetGame with setInventory([]) dropped
resetGameKeepsInventory ==
    /\ gameState' = "START"
    /\ currentScene' = None
    /\ storyLog' = <<>>
    /\ inventory' = inventory
    /\ error' = None
    /\ lastAddedItem' = None
    /\ UNCHANGED <<pending, issued>>

(***************************************************************************)
(* resetGame                                                               *)
(***************************************************************************)
resetGame ==
    /\ gameState' = "START"
    /\ currentScene' = None
    /\ storyLog' = <<>>
    /\ inventory' = <<>>
    /\ error' = None
    /\ lastAddedItem' = None
    /\ UNCHANGED <<pending, issued>>

(***************************************************************************)
(* handleApiCall up to its await: clears the error, enters LOADING and     *)
(* issues the pipeline call, which runs up to the narrative request.  The  *)
(* record of the call is the closure the continuation runs in: `inventory` *)
(* is the inventory handleApiCall's useCallback captured; log0 and scene0  *)
(* are the story log and the scene of the render the calling handler ran   *)
(* in; phase is the request the call is suspended at.                      *)
(***************************************************************************)
handleApiCall(history, choice) ==
    /\ issued < MaxCalls
    /\ error' = None
    /\ gameState' = "LOADING"
    /\ issued' = issued + 1
    /\ pending' = pending \cup
          {[id |-> issued + 1, history |-> history, choice |-> choice,
            inventory |-> inventory, log0 |-> storyLog, scene0 |-> currentScene,
            phase |-> "narrative", scenePayload |-> None]}

(***************************************************************************)
(* handleStartGame                                                         *)
(***************************************************************************)
handleStartGame ==
    /\ handleApiCall("", BeginAction)
    /\ UNCHANGED <<currentScene, storyLog, inventory, lastAddedItem>>

\* handleChoice numbering the entries from 1
handleChoiceCountsFromOne(choice) ==
    IF currentScene = None \/ gameState = "LOADING"
    THEN UNCHANGED vars
    ELSE LET newLogEntry == [id |-> Len(storyLog) + 1, story |-> Get(currentScene).story]
             updatedLog == Append(storyLog, newLogEntry)
             historyText == join([i \in 1..Len(updatedLog) |-> updatedLog[i].story],
                                 Separator)
         IN /\ storyLog' = updatedLog
            /\ handleApiCall(historyText, choice)
            /\ UNCHANGED <<currentScene, inventory, lastAddedItem>>

\* handleChoice logging the chosen action in place of the scene's story
handleChoiceLogsAction(choice) ==
    IF currentScene = None \/ gameState = "LOADING"
    THEN UNCHANGED vars
    ELSE LET newLogEntry == [id |-> Len(storyLog), story |-> choice]
             updatedLog == Append(storyLog, newLogEntry)
             historyText == join([i \in 1..Len(updatedLog) |-> updatedLog[i].story],
                                 Separator)
         IN /\ storyLog' = updatedLog
            /\ handleApiCall(historyText, choice)
            /\ UNCHANGED <<currentScene, inventory, lastAddedItem>>

(***************************************************************************)
(* handleChoice                                                            *)
(***************************************************************************)
handleChoice(choice) ==
    IF currentScene = None \/ gameState = "LOADING"
    THEN UNCHANGED vars
    ELSE LET newLogEntry == [id |-> Len(storyLog), story |-> Get(currentScene).story]
             updatedLog == Append(storyLog, newLogEntry)
             historyText == join([i \in 1..Len(updatedLog) |-> updatedLog[i].story],
                                 Separator)
         IN /\ storyLog' = updatedLog
            /\ handleApiCall(historyText, choice)
            /\ UNCHANGED <<currentScene, inventory, lastAddedItem>>

\* ApiSuccess with the gameOver test dropped: every fulfilled call ends in
\* PLAYING
ApiSuccessAlwaysPlaying(c, scene) ==
    /\ pending' = pending \ {c}
    /\ IF /\ scene.newItem # None
          /\ Get(scene.newItem) # <<>>
          /\ trim(Get(scene.newItem)) # <<>>
          /\ ~includes(c.inventory, Get(scene.newItem))
       THEN /\ inventory' = Append(inventory, Get(scene.newItem))
            /\ lastAddedItem' = scene.newItem
       ELSE /\ inventory' = inventory
            /\ lastAddedItem' = None
    /\ currentScene' = Some(scene)
    /\ gameState' = "PLAYING"
    /\ UNCHANGED <<storyLog, error, issued>>

(***************************************************************************)
(* handleApiCall after its await, the promise fulfilled with `scene`.      *)
(***************************************************************************)
ApiSuccess(c, scene) ==
    /\ pending' = pending \ {c}
    /\ IF /\ scene.newItem # None
          /\ Get(scene.newItem) # <<>>
          /\ trim(Get(scene.newItem)) # <<>>
          /\ ~includes(c.inventory, Get(scene.newItem))
       THEN /\ inventory' = Append(inventory, Get(scene.newItem))
            /\ lastAddedItem' = scene.newItem
       ELSE /\ inventory' = inventory
            /\ lastAddedItem' = None
    /\ currentScene' = Some(scene)
    /\ gameState' = IF scene.gameOver THEN "GAME_OVER" ELSE "PLAYING"
    /\ UNCHANGED <<storyLog, error, issued>>

\* ApiFailure with setGameState(GameState.ERROR) dropped
ApiFailureKeepsState(c, e) ==
    /\ pending' = pending \ {c}
    /\ error' = Some(IF e.isError THEN e.message ELSE "An unknown error occurred.")
    /\ gameState' = gameState
    /\ UNCHANGED <<currentScene, storyLog, inventory, lastAddedItem, issued>>

(***************************************************************************)
(* handleApiCall after its await, the promise rejected with `e`.           *)
(***************************************************************************)
ApiFailure(c, e) ==
    /\ pending' = pending \ {c}
    /\ error' = Some(IF e.isError THEN e.message ELSE "An unknown error occurred.")
    /\ gameState' = "ERROR"
    /\ UNCHANGED <<currentScene, storyLog, inventory, lastAddedItem, issued>>

(***************************************************************************)
(* fetchNextScene.  generateStory returns the parsed payload and the image *)
(* request is issued; or generateStory throws and the call is rejected; or *)
(* generateImage returns the data URL and the call is fulfilled with the   *)
(* payload and the URL; or generateImage throws and the call is rejected.  *)
(***************************************************************************)
\* fetchNextScene resolving with the payload without awaiting generateImage
StoryArrivesSkipsImage(c, scenePayload) ==
    /\ c \in pending
    /\ c.phase = "narrative"
    /\ ApiSuccess(c, MakeScene(scenePayload, ImageUrl))

StoryArrives(c, scenePayload) ==
    /\ c \in pending
    /\ c.phase = "narrative"
    /\ pending' = (pending \ {c}) \cup
          {[c EXCEPT !.phase = "image", !.scenePayload = Some(scenePayload)]}
    /\ UNCHANGED <<gameState, currentScene, storyLog, inventory, error,
                   lastAddedItem, issued>>

StoryFails(c, e) ==
    /\ c \in pending
    /\ c.phase = "narrative"
    /\ ApiFailure(c, e)

ImageArrives(c, imageUrl) ==
    /\ c \in pending
    /\ c.phase = "image"
    /\ ApiSuccess(c, MakeScene(Get(c.scenePayload), imageUrl))

ImageFails(c, e) ==
    /\ c \in pending
    /\ c.phase = "image"
    /\ ApiFailure(c, e)

(***************************************************************************)
(* The layout of the habitat graph (HabitatViewer, the useMemo callback).  *)
(*                                                                         *)
(* Coordinates are computed exactly.  Every angle that occurs is a         *)
(* multiple of 30 degrees, whose cosine and sine are halves of numbers     *)
(* a + b*sqrt(3) with integers a and b: the pair <<a, b>> stands for       *)
(* (a + b*sqrt(3)) / 2.  Rounding of the floating point arithmetic is not  *)
(* modelled.                                                               *)
(***************************************************************************)
Zero == <<0, 0>>
Plus(u, v) == <<u[1] + v[1], u[2] + v[2]>>
Times(n, u) == <<n * u[1], n * u[2]>>

\* Math.cos and Math.sin of an angle in degrees, a multiple of 30
CosTable ==
    << <<2, 0>>, <<0, 1>>, <<1, 0>>, <<0, 0>>, <<-1, 0>>, <<0, -1>>,
       <<-2, 0>>, <<0, -1>>, <<-1, 0>>, <<0, 0>>, <<1, 0>>, <<0, 1>> >>
Cos(angle) == CosTable[((angle % 360) \div 30) + 1]
Sin(angle) == Cos(angle + 270)

\* Math.random() * Math.PI * 2: an angle of [0, 360)
StartAngles == {30, 270}

\* Math.PI / 3
AngleStep == 60

\* const radius = 4
Radius == 4

\* new THREE.Vector3(x, y, z)
Vector3(x, y, z) == [x |-> x, y |-> y, z |-> z]
Origin == Vector3(Zero, Zero, Zero)

\* an object used as a map from ids
EmptyMap == [id \in {} |-> Zero]
Put(map, key, value) ==
    [id \in DOMAIN map \cup {key} |-> IF id = key THEN value ELSE map[id]]

\* the module lists handed to the layout: the reply is untrusted, so ids may
\* repeat and connectedToId may name any id, the module's own included
ModuleIds == {"shuttle-1", "biodome-1", "tunnel-1"}
TypeOf(id) ==
    IF id = "shuttle-1" THEN "shuttle" ELSE IF id = "biodome-1" THEN "biodome" ELSE "tunnel"
HabitatModules ==
    {[id |-> i, type |-> TypeOf(i), connectedToId |-> p] :
        i \in ModuleIds, p \in ModuleIds \cup {""}}
ModuleLists == UNION {[1..n -> HabitatModules] : n \in 1..MaxModules}

\* findRoot without the find: the first module, connected or not
findRootFirstModule(ms) == IF Len(ms) > 0 THEN Some(ms[1]) ELSE None

\* modules.find(m => !m.connectedToId), falling back on modules[0]
findRoot(ms) ==
    LET unconnected == SelectSeq(ms, LAMBDA m : m.connectedToId = "")
    IN IF unconnected # <<>> THEN Some(Head(unconnected))
       ELSE IF Len(ms) > 0 THEN Some(ms[1])
       ELSE None

\* childrenOf keeping the first child only
childrenOfFirstOnly(p) ==
    LET all == SelectSeq(modules,
                         LAMBDA m : m.connectedToId = p.id /\ m.id \notin placedModules)
    IN IF all = <<>> THEN <<>> ELSE <<Head(all)>>

\* modules.filter(m => m.connectedToId === parent.id && !placedModules.has(m.id))
childrenOf(p) ==
    SelectSeq(modules, LAMBDA m : m.connectedToId = p.id /\ m.id \notin placedModules)

\* the application after construction: the viewer has not rendered a scene
Init ==
    /\ Mounted
    /\ modules = <<>>
    /\ positions = EmptyMap
    /\ connectionAngles = EmptyMap
    /\ placedModules = {}
    /\ queue = <<>>
    /\ parent = None
    /\ children = <<>>
    /\ index = 0
    /\ startAngle = EmptyMap
    /\ pc = "idle"
    /\ previous = None

\* the viewer is about to lay out a module list (a non-empty one: for an
\* empty list HabitatViewer renders a placeholder)
LayoutInit ==
    /\ Mounted
    /\ modules \in ModuleLists
    /\ positions = EmptyMap
    /\ connectionAngles = EmptyMap
    /\ placedModules = {}
    /\ queue = <<>>
    /\ parent = None
    /\ children = <<>>
    /\ index = 0
    /\ startAngle = EmptyMap
    /\ pc = "idle"
    /\ previous = None

\* the callback is entered (again, when the viewer renders the same list
\* once more): the locals are created, the root is found and placed
layoutBegin ==
    /\ pc \in {"idle", "returned"}
    /\ previous' = IF pc = "returned" THEN Some(positions) ELSE previous
    /\ connectionAngles' = EmptyMap
    /\ startAngle' = EmptyMap
    /\ parent' = None
    /\ children' = <<>>
    /\ index' = 0
    /\ LET root == findRoot(modules)
       IN IF root # None
          THEN /\ queue' = <<Get(root)>>
               /\ positions' = Put(EmptyMap, Get(root).id, Origin)
               /\ placedModules' = {Get(root).id}
          ELSE /\ queue' = <<>>
               /\ positions' = EmptyMap
               /\ placedModules' = {}
    /\ pc' = "while"
    /\ UNCHANGED modules

\* while (queue.length > 0): queue.shift() and the filter of its children
queueShift ==
    /\ pc = "while"
    /\ queue # <<>>
    /\ parent' = Some(Head(queue))
    /\ queue' = Tail(queue)
    /\ children' = childrenOf(Head(queue))
    /\ index' = 0
    /\ pc' = "forEach"
    /\ UNCHANGED <<modules, positions, connectionAngles, placedModules, startAngle,
                   previous>>

\* placeChild with the line that advances the parent's angle dropped
placeChildKeepsAngle(random) ==
    /\ pc = "forEach"
    /\ index < Len(children)
    /\ LET child == children[index + 1]
           p == Get(parent)
           parentPosition == positions[p.id]
           fresh == p.id \notin DOMAIN connectionAngles
           angle == IF fresh THEN random ELSE connectionAngles[p.id]
           x == Plus(parentPosition.x, Times(Radius, Cos(angle)))
           z == Plus(parentPosition.z, Times(Radius, Sin(angle)))
       IN /\ positions' = Put(positions, child.id, Vector3(x, Zero, z))
          /\ connectionAngles' = Put(connectionAngles, p.id, angle)
          /\ startAngle' = IF fresh THEN Put(startAngle, p.id, angle) ELSE startAngle
          /\ placedModules' = placedModules \cup {child.id}
          /\ queue' = Append(queue, child)
    /\ index' = index + 1
    /\ UNCHANGED <<modules, parent, children, pc, previous>>

\* one call of the forEach callback, on children[index]; `random` is what
\* Math.random gives if the callback asks; startAngle keeps the angle a
\* parent began with
placeChild(random) ==
    /\ pc = "forEach"
    /\ index < Len(children)
    /\ LET child == children[index + 1]
           p == Get(parent)
           parentPosition == positions[p.id]
           fresh == p.id \notin DOMAIN connectionAngles
           angle == IF fresh THEN random ELSE connectionAngles[p.id]
           x == Plus(parentPosition.x, Times(Radius, Cos(angle)))
           z == Plus(parentPosition.z, Times(Radius, Sin(angle)))
       IN /\ positions' = Put(positions, child.id, Vector3(x, Zero, z))
          /\ connectionAngles' = Put(connectionAngles, p.id, angle + AngleStep)
          /\ startAngle' = IF fresh THEN Put(startAngle, p.id, angle) ELSE startAngle
          /\ placedModules' = placedModules \cup {child.id}
          /\ queue' = Append(queue, child)
    /\ index' = index + 1
    /\ UNCHANGED <<modules, parent, children, pc, previous>>

\* forEach has called back for every child
forEachEnds ==
    /\ pc = "forEach"
    /\ index = Len(children)
    /\ pc' = "while"
    /\ UNCHANGED <<modules, positions, connectionAngles, placedModules, queue, parent,
                   children, index, startAngle, previous>>

\* the queue is empty: return { positions }
layoutReturn ==
    /\ pc = "while"
    /\ queue = <<>>
    /\ pc' = "returned"
    /\ UNCHANGED <<modules, positions, connectionAngles, placedModules, queue, parent,
                   children, index, startAngle, previous>>

PlaceChild == \E random \in StartAngles : placeChild(random)

LayoutNext ==
    \/ layoutBegin /\ UNCHANGED vars
    \/ queueShift /\ UNCHANGED vars
    \/ PlaceChild /\ UNCHANGED vars
    \/ forEachEnds /\ UNCHANGED vars
    \/ layoutReturn /\ UNCHANGED vars

SpecLayout == LayoutInit /\ [][LayoutNext]_<<vars, layoutVars>>

\* the callback is synchronous code: once entered it runs on
SpecLayoutRuns == SpecLayout /\ WF_layoutVars(LayoutNext)

(***************************************************************************)
(* The controller and the pipeline together.                               *)
(***************************************************************************)
Choose == \E a \in Actions : handleChoice(a)
NarrativeReply == \E c \in pending : \E scenePayload \in Payloads : StoryArrives(c, scenePayload)
NarrativeError == \E c \in pending : \E e \in StoryErrors : StoryFails(c, e)
ImageReply == \E c \in pending : ImageArrives(c, ImageUrl)
ImageError == \E c \in pending : \E e \in ImageErrors : ImageFails(c, e)

Next ==
    \/ handleStartGame /\ UNCHANGED layoutVars
    \/ Choose /\ UNCHANGED layoutVars
    \/ resetGame /\ UNCHANGED layoutVars
    \/ NarrativeReply /\ UNCHANGED layoutVars
    \/ NarrativeError /\ UNCHANGED layoutVars
    \/ ImageReply /\ UNCHANGED layoutVars
    \/ ImageError /\ UNCHANGED layoutVars

Spec == Init /\ [][Next]_<<vars, layoutVars>>

\* every request to the external capability returns or fails: a narrative
\* request that is outstanding is answered, and so is an image request
SpecReturns ==
    /\ Spec
    /\ WF_vars(NarrativeReply \/ NarrativeError)
    /\ WF_vars(ImageReply \/ ImageError)

TypeOK ==
    /\ gameState \in GameStates
    /\ currentScene \in {None} \cup {Some(s) : s \in Scenes}
    /\ error \in {None} \cup {Some(e.message) : e \in Thrown}
                      \cup {Some("An unknown error occurred.")}
    /\ lastAddedItem \in NewItems
    /\ issued \in 0..MaxCalls
    /\ \A c \in pending :
          /\ c.id \in 1..issued
          /\ c.phase \in {"narrative", "image"}
          /\ (c.phase = "image") = (c.scenePayload # None)
    /\ \A c, d \in pending : c.id = d.id => c = d

(***************************************************************************)
(* Steps of a behaviour, as the claims speak of them.                      *)
(***************************************************************************)
\* the call c completes in this step: handleApiCall's continuation runs
Completes(c) == c \in pending /\ \A d \in pending' : d.id # c.id

\* the call c is issued in this step: handleApiCall runs up to its await
Issued(c) == c \in pending' /\ \A d \in pending : d.id # c.id

\* the call c was issued by choose(), not by start()
IssuedByChoose(c) == c.choice # BeginAction

\* every module of graph `before` is in graph `after` with the same id, the
\* same type and the same connectedToId
Preserved(before, after) == \A i \in 1..Len(before) : includes(after, before[i])

\* `after` has no module with the id of some module of `before`
OmitsId(before, after) ==
    \E i \in 1..Len(before) : \A j \in 1..Len(after) : after[j].id # before[i].id

\* a newItem the code counts as an item: a string that is not blank
IsItem(newItem) == newItem # None /\ trim(Get(newItem)) # <<>>

SessionIsZero ==
    /\ gameState = "START"
    /\ currentScene = None
    /\ storyLog = <<>>
    /\ inventory = <<>>
    /\ lastAddedItem = None
    /\ error = None

(***************************************************************************)
(* C1: choose(action) is a no-op unless the state is PLAYING: called in    *)
(* START, LOADING, GAME_OVER or ERROR it changes neither the state nor the *)
(* story log and issues no pipeline call.                                  *)
(***************************************************************************)
C1_ChooseIsNoOpUnlessPlaying ==
    [][\A a \in Actions :
          (gameState # "PLAYING" /\ handleChoice(a))
             => (gameState' = gameState /\ storyLog' = storyLog /\ pending' = pending)]_vars

(***************************************************************************)
(* C2: when reset() was invoked while a call was in flight (the session is *)
(* at START with a call outstanding), the completion of that call leaves   *)
(* the session at START with no scene, empty inventory, empty log, no      *)
(* last-added item and no error.                                           *)
(***************************************************************************)
C2_ResultAfterResetIsDiscarded ==
    [][(gameState = "START" /\ \E c \in pending : Completes(c)) => SessionIsZero']_vars

(***************************************************************************)
(* C3: append-only law.  A successful turn of a session that already has a *)
(* habitat graph keeps every module of that graph, with the same type and  *)
(* the same connectedToId.                                                 *)
(***************************************************************************)
C3_HabitatIsAppendOnly ==
    [][(/\ currentScene # None
        /\ \E c \in pending : IssuedByChoose(c) /\ Completes(c)
        /\ gameState' # "ERROR")
          => Preserved(habitatGraph, habitatGraph')]_vars

(***************************************************************************)
(* C4: a turn whose reply omits a module id of the habitat graph fails:    *)
(* when the call completes the state is ERROR and the habitat graph has    *)
(* kept its value.                                                         *)
(***************************************************************************)
C4_OmittedModuleFailsTheTurn ==
    [][\A c \in pending :
          (/\ currentScene # None
           /\ IssuedByChoose(c)
           /\ c.scenePayload # None
           /\ OmitsId(habitatGraph, Get(c.scenePayload).habitatModules)
           /\ Completes(c))
             => (gameState' = "ERROR" /\ habitatGraph' = habitatGraph)]_vars

(***************************************************************************)
(* C5: when a pipeline call fails, the inventory, the story log and the    *)
(* current scene (and with it the habitat graph) have the values they had  *)
(* immediately before the call that issued it.  Stated for the calls       *)
(* issued by choose(), where no second call needs to be outstanding for    *)
(* the claim's case to arise.                                              *)
(***************************************************************************)
C5_FailureLeavesSessionAsBeforeTheCall ==
    [][\A c \in pending :
          (IssuedByChoose(c) /\ Completes(c) /\ gameState' = "ERROR")
             => (/\ inventory' = c.inventory
                 /\ storyLog' = c.log0
                 /\ currentScene' = c.scene0)]_vars

(***************************************************************************)
(* C6: the inventory never contains an item name more than once.           *)
(***************************************************************************)
C6_InventoryHasNoDuplicates ==
    \A i, j \in 1..Len(inventory) : i # j => inventory[i] # inventory[j]

(***************************************************************************)
(* C7: on a successful turn, a newItem that is an item (non-empty; blank   *)
(* counts as empty, as the code reads it) and is not in the inventory is   *)
(* appended at the end and becomes last-added; otherwise the inventory is  *)
(* unchanged and last-added is cleared.                                    *)
(***************************************************************************)
C7_NewItemUpdatesInventory ==
    [][\A c \in pending :
          (Completes(c) /\ gameState' # "ERROR")
             => LET newItem == Get(c.scenePayload).newItem
                IN IF IsItem(newItem) /\ ~includes(inventory, Get(newItem))
                   THEN /\ inventory' = Append(inventory, Get(newItem))
                        /\ lastAddedItem' = newItem
                   ELSE /\ inventory' = inventory
                        /\ lastAddedItem' = None]_vars

C9_NoReentryWhileLoading ==
    [][(gameState = "LOADING" /\ (handleStartGame \/ \E a \in Actions : handleChoice(a)))
          => UNCHANGED vars]_vars

(***************************************************************************)
(* C10: the only state transitions are START or a terminal state to        *)
(* LOADING by start(), PLAYING to LOADING by choose(), LOADING to PLAYING, *)
(* GAME_OVER or ERROR by a completion, and any state to START by reset().  *)
(***************************************************************************)
C10_OnlyTheListedTransitions ==
    [][gameState' # gameState =>
          \/ /\ gameState \in {"START", "GAME_OVER", "ERROR"}
             /\ gameState' = "LOADING"
             /\ handleStartGame
          \/ /\ gameState = "PLAYING"
             /\ gameState' = "LOADING"
             /\ \E a \in Actions : handleChoice(a)
          \/ /\ gameState = "LOADING"
             /\ gameState' \in {"PLAYING", "GAME_OVER", "ERROR"}
             /\ \E c \in pending : Completes(c)
          \/ /\ gameState' = "START"
             /\ resetGame]_vars

(***************************************************************************)
(* C11: start() called in START, GAME_OVER or ERROR clears the current     *)
(* scene, the story log, the inventory, the last-added item and the error, *)
(* enters LOADING and issues a pipeline call with an empty history and the *)
(* begin action.                                                           *)
(***************************************************************************)
C11_StartClearsTheSession ==
    [][(gameState \in {"START", "GAME_OVER", "ERROR"} /\ handleStartGame)
          => (/\ currentScene' = None
              /\ storyLog' = <<>>
              /\ inventory' = <<>>
              /\ lastAddedItem' = None
              /\ error' = None
              /\ gameState' = "LOADING"
              /\ \E c \in pending' :
                    Issued(c) /\ c.history = "" /\ c.choice = BeginAction)]_vars

(***************************************************************************)
(* C12: reset() can be called in every state, and whatever the state was   *)
(* it leaves the session at its zero value: START, no scene, empty log,    *)
(* empty inventory, no last-added item, no error.                          *)
(***************************************************************************)
C12_ResetLeavesTheZeroSession ==
    [][(ENABLED resetGame) /\ (resetGame => SessionIsZero')]_vars

\* reset() was called after a game that had stored a scene, logged a story
\* and collected an item, while a call was in flight
C12_Witness ==
    /\ SessionIsZero
    /\ \E c \in pending : c.scene0 # None /\ c.log0 # <<>> /\ c.inventory # <<>>
(***************************************************************************)
(* C13: after every successful turn the habitat graph has exactly one      *)
(* module that is connected to no other (connectedToId null, absent or     *)
(* empty).                                                                 *)
(***************************************************************************)
Unconnected(graph) == {i \in 1..Len(graph) : graph[i].connectedToId = ""}

C13_ExactlyOneRoot ==
    [][((\E c \in pending : Completes(c)) /\ gameState' # "ERROR")
          => Cardinality(Unconnected(habitatGraph')) = 1]_vars

(***************************************************************************)
(* C14: a turn whose reply has a new module connected to an id that is     *)
(* neither the id of a module of the graph before the turn nor the id of   *)
(* an earlier module of the reply fails: when the call completes the state *)
(* is ERROR and the habitat graph has kept its value.                      *)
(***************************************************************************)
IdsOf(graph) == {graph[i].id : i \in 1..Len(graph)}

DanglingModule(before, reply) ==
    \E i \in 1..Len(reply) :
       /\ reply[i].id \notin IdsOf(before)
       /\ reply[i].connectedToId # ""
       /\ reply[i].connectedToId \notin IdsOf(before)
       /\ reply[i].connectedToId \notin IdsOf(SubSeq(reply, 1, i - 1))

C14_DanglingParentFailsTheTurn ==
    [][\A c \in pending :
          (/\ c.scenePayload # None
           /\ DanglingModule(IF currentScene = None THEN <<>> ELSE habitatGraph,
                             Get(c.scenePayload).habitatModules)
           /\ Completes(c))
             => (gameState' = "ERROR" /\ habitatGraph' = habitatGraph)]_vars

(***************************************************************************)
(* C15: for a list of N modules with unique ids in which every module is   *)
(* linked to the root by connectedToId links, the layout returns a         *)
(* position for exactly N modules, one per id.                             *)
(***************************************************************************)
UniqueIds(ms) == \A i, j \in 1..Len(ms) : i # j => ms[i].id # ms[j].id

\* module m is the module with id rootId or reaches it by at most n links
RECURSIVE LinkedTo(_, _, _, _)
LinkedTo(ms, m, rootId, n) ==
    \/ m.id = rootId
    \/ /\ n > 0
       /\ \E i \in 1..Len(ms) :
             ms[i].id = m.connectedToId /\ LinkedTo(ms, ms[i], rootId, n - 1)

ConnectedToRoot(ms) ==
    /\ findRoot(ms) # None
    /\ \A i \in 1..Len(ms) : LinkedTo(ms, ms[i], Get(findRoot(ms)).id, Len(ms))

C15_ConnectedGraphIsPlacedWhole ==
    (pc = "returned" /\ UniqueIds(modules) /\ ConnectedToRoot(modules))
       => (/\ DOMAIN positions = IdsOf(modules)
           /\ Cardinality(DOMAIN positions) = Len(modules))

\* a chain of three modules, each listed before the module it is connected
\* to, has been laid out
C15_Witness ==
    /\ pc = "returned"
    /\ Len(modules) = 3
    /\ UniqueIds(modules)
    /\ modules[1].connectedToId = modules[2].id
    /\ modules[2].connectedToId = modules[3].id
    /\ modules[3].connectedToId = ""
    /\ Cardinality(DOMAIN positions) = 3

(***************************************************************************)
(* C16: the layout is deterministic: a second call on the same module list *)
(* returns the positions the first call returned.                          *)
(***************************************************************************)
C16_LayoutIsDeterministic ==
    (pc = "returned" /\ previous # None) => positions = Get(previous)

(***************************************************************************)
(* C17: a reply that parses but does not have the shape of a ScenePayload  *)
(* (here: the required field choices is absent) never becomes the current  *)
(* scene: when its call completes the state is ERROR and the current scene *)
(* has kept its value.                                                     *)
(***************************************************************************)
\* the shape of ScenePayload, for the fields a reply can get wrong here
HasScenePayloadShape(scenePayload) == scenePayload.choices # None

C17_MisshapenReplyIsRejected ==
    [][\A c \in pending :
          (/\ c.scenePayload # None
           /\ ~HasScenePayloadShape(Get(c.scenePayload))
           /\ Completes(c))
             => (gameState' = "ERROR" /\ currentScene' = currentScene)]_vars

(***************************************************************************)
(* C18: within one fetchNextScene call the image request is issued only    *)
(* once the narrative request has returned and its reply has been parsed;  *)
(* a call whose narrative request or parsing fails ends without an image   *)
(* request; a Scene is returned only by a call whose image request has     *)
(* succeeded, and it holds the parsed payload and the image.               *)
(***************************************************************************)
C18_NarrativeThenImage ==
    [][/\ \A d \in pending' :
             /\ Issued(d) => d.phase = "narrative"
             /\ d.phase = "image" =>
                   /\ d.scenePayload # None
                   /\ \E c \in pending :
                         /\ c.id = d.id
                         /\ c.phase = "narrative" \/ c = d
       /\ \A c \in pending :
             Completes(c) =>
                /\ c.phase = "narrative" => gameState' = "ERROR"
                /\ gameState' # "ERROR" =>
                      /\ c.phase = "image"
                      /\ currentScene' = Some(MakeScene(Get(c.scenePayload), ImageUrl))]_vars

\* one call has returned a scene after both requests and a later call has
\* failed at its narrative request
C18_Witness ==
    /\ currentScene # None
    /\ gameState = "ERROR"
    /\ error = Some(InvalidFormat.message)
    /\ pending = {}
    /\ issued = 2

(***************************************************************************)
(* C19: the layout places the root at the origin, and every other module   *)
(* it places at distance 4 from the position of the parent it is placed    *)
(* for and at that parent's height; the k-th child placed for a parent     *)
(* (k = 0, 1, 2, ... in the order of the module list) is placed at the     *)
(* parent's starting angle plus k times 60 degrees.                        *)
(***************************************************************************)
Minus(u, v) == <<u[1] - v[1], u[2] - v[2]>>

\* the square of (a + b*sqrt(3)) / 2, in quarters: (a^2 + 3b^2 + 2ab*sqrt(3)) / 4
Square(u) == <<u[1] * u[1] + 3 * u[2] * u[2], 2 * u[1] * u[2]>>

\* the square of the distance of two positions in the plane, in quarters
DistanceSquared(u, v) == Plus(Square(Minus(u.x, v.x)), Square(Minus(u.z, v.z)))

RootAtOrigin == positions[Get(findRoot(modules)).id] = Origin

C19_ChildrenOnTheCircle ==
    [][/\ (pc # "while" /\ pc' = "while" /\ parent' = None) => RootAtOrigin'
       /\ pc' = "returned" => RootAtOrigin'
       /\ index' = index + 1 =>
             LET child == children[index + 1]
                 from == positions[Get(parent).id]
                 at == positions'[child.id]
                 angle == startAngle'[Get(parent).id] + index * 60
             IN /\ at.y = from.y
                /\ DistanceSquared(at, from) = <<4 * (4 * 4), 0>>
                /\ at.x = Plus(from.x, Times(4, Cos(angle)))
                /\ at.z = Plus(from.z, Times(4, Sin(angle)))]_layoutVars

\* a layout has returned in which some parent had two children placed
C19_Witness ==
    /\ pc = "returned"
    /\ \E p \in DOMAIN startAngle : connectionAngles[p] = startAngle[p] + 2 * 60

(***************************************************************************)
(* C20: a choose(action) that is accepted (it issues a pipeline call)      *)
(* appends exactly one entry to the end of the story log, holding the      *)
(* story text of the current scene and not the action; the entries logged  *)
(* before are unchanged; the history passed to the pipeline is the story   *)
(* texts of the whole log, the new entry included, in log order, joined by *)
(* the separator.                                                          *)
(***************************************************************************)
\* the stories of the first n entries of a log, the separator between them
RECURSIVE HistoryOf(_, _)
HistoryOf(log, n) ==
    IF n = 0 THEN ""
    ELSE IF n = 1 THEN log[1].story
    ELSE HistoryOf(log, n - 1) \o Separator \o log[n].story

C20_ChooseLogsTheStory ==
    [][\A c \in pending' :
          (Issued(c) /\ IssuedByChoose(c)) =>
             /\ currentScene # None
             /\ Len(storyLog') = Len(storyLog) + 1
             /\ SubSeq(storyLog', 1, Len(storyLog)) = storyLog
             /\ storyLog'[Len(storyLog')].story = Get(currentScene).story
             /\ storyLog'[Len(storyLog')].story # c.choice
             /\ c.history = HistoryOf(storyLog', Len(storyLog'))]_vars

\* two turns were chosen, over scenes with different stories, and the call
\* of the second is in flight with both stories in its history
C20_Witness ==
    /\ Len(storyLog) = 2
    /\ storyLog[1].story = "s2"
    /\ storyLog[2].story = "s1"
    /\ \E c \in pending : c.history = "s2" \o Separator \o "s1"

(***************************************************************************)
(* C21: the layout terminates on every module list (cycles, modules        *)
(* connected to themselves, several unconnected modules and dangling       *)
(* connectedToId included) and assigns a position to each module id at     *)
(* most once.  LayoutTerminates is the first half, C21_EachIdPlacedOnce    *)
(* the second: no placement is made for an id that has a position.         *)
(***************************************************************************)
LayoutTerminates == (pc = "while" /\ parent = None) ~> (pc = "returned")

C21_EachIdPlacedOnce ==
    [][index' = index + 1 => children[index + 1].id \notin DOMAIN positions]_layoutVars

(***************************************************************************)
(* C22: the ids that have a position in the layout's result are exactly    *)
(* the ids reachable from the root by child links (a module is a child of  *)
(* the id its connectedToId names), the root being the first module that   *)
(* is connected to nothing or, if there is none, the first module of the   *)
(* list; the other modules get no position and the layout still returns.   *)
(***************************************************************************)
ChosenRootId(ms) ==
    LET unconnected == {i \in 1..Len(ms) : ms[i].connectedToId = ""}
    IN IF unconnected # {}
       THEN ms[CHOOSE i \in unconnected : \A j \in unconnected : i <= j].id
       ELSE ms[1].id

\* the ids reached from `ids` by at most n child links
RECURSIVE ReachedFrom(_, _, _)
ReachedFrom(ms, ids, n) ==
    IF n = 0 THEN ids
    ELSE ReachedFrom(ms,
                     ids \cup {ms[i].id : i \in {j \in 1..Len(ms) : ms[j].connectedToId \in ids}},
                     n - 1)

Reachable(ms) == ReachedFrom(ms, {ChosenRootId(ms)}, Len(ms))

C22_PlacedIsReachable ==
    pc = "returned" => DOMAIN positions = Reachable(modules)

\* the first module of the list is connected to itself, the second is
\* connected to nothing, the third is its child: the layout has returned
\* positions for the second and the third only
C22_Witness ==
    /\ pc = "returned"
    /\ Len(modules) = 3
    /\ UniqueIds(modules)
    /\ modules[1].connectedToId = modules[1].id
    /\ modules[2].connectedToId = ""
    /\ modules[3].connectedToId = modules[2].id
    /\ DOMAIN positions = {modules[2].id, modules[3].id}

(***************************************************************************)
(* C23: in every reachable state in which the controller is in PLAYING or  *)
(* GAME_OVER a current scene is stored.                                    *)
(***************************************************************************)
C23_SceneStoredWhenPlaying ==
    gameState \in {"PLAYING", "GAME_OVER"} => currentScene # None

\* a reset emptied the log while calls were in flight, and the completion
\* of one of them has brought the controller to PLAYING
C23_Witness ==
    /\ gameState = "PLAYING"
    /\ currentScene # None
    /\ storyLog = <<>>
    /\ \E c \in pending : c.log0 # <<>>

(***************************************************************************)
(* C24: in every reachable state the entries of the story log carry the    *)
(* sequence numbers 0, 1, ..., n-1 in log order, and a step changes the    *)
(* log only by appending one entry at its end, or by emptying it when the  *)
(* step is a reset.                                                        *)
(***************************************************************************)
NumberedInOrder(log) == \A i \in 1..Len(log) : log[i].id = i - 1

C24_LogIsNumberedAndAppendOnly ==
    [][/\ NumberedInOrder(storyLog) /\ NumberedInOrder(storyLog')
       /\ storyLog' # storyLog =>
             \/ /\ Len(storyLog') = Len(storyLog) + 1
                /\ SubSeq(storyLog', 1, Len(storyLog)) = storyLog
             \/ resetGame /\ storyLog' = <<>>]_vars

\* two turns were chosen and have completed: the log has the entries 0
\* and 1 and no call is in flight
C24_Witness ==
    /\ Len(storyLog) = 2
    /\ storyLog[1].id = 0
    /\ storyLog[2].id = 1
    /\ pending = {}

(***************************************************************************)
(* C25: if every narrative and image request eventually returns or fails,  *)
(* then whenever the controller is in LOADING it eventually leaves         *)
(* LOADING (to PLAYING, GAME_OVER or ERROR by a completion, or to START by *)
(* a reset).                                                               *)
(***************************************************************************)
C25_LoadingIsLeft == (gameState = "LOADING") ~> (gameState # "LOADING")

\* the controller is in LOADING with two calls in flight, one at its
\* narrative request and one at its image request
C25_Witness ==
    /\ gameState = "LOADING"
    /\ \E c, d \in pending : c.phase = "narrative" /\ d.phase = "image"

====
